---- MODULE Spec2Model ----
(***************************************************************************)
(* Conway's Game of Life on a toroidal grid: the Universe of src/lib.rs.   *)
(* The state is the Universe's three fields plus the outcome of the last   *)
(* call; every public method is one action, translated from its body, and  *)
(* the private ones are the operators the actions are made of.             *)
(*                                                                         *)
(* Cells are stored as in the code: a flat buffer, here a sequence whose   *)
(* element idx + 1 is the code's cells[idx].  Dimensions are u32 in the    *)
(* code; every product and sum the model forms stays far below 2^31, so    *)
(* no u32 or u8 operation of the code wraps within the bounds explored.    *)
(***************************************************************************)
EXTENDS Integers, Sequences, FiniteSets

VARIABLES
    width,      \* Universe.width
    height,     \* Universe.height
    cells,      \* Universe.cells
    status,     \* "ok", or "panicked" once a call has panicked (the call aborts)
    last,       \* name of the last call made on the Universe
    prev,       \* the buffer as it was when the latest tick() started; <<>> once
                \* set_cells() or a resize has written the buffer since
    base,       \* the buffer as new(), the latest set_cells() or resize left it
    age,        \* tick() calls since base was left
    nticks,     \* tick() calls since construction or the last resize
    nseeds      \* set_cells() calls since construction or the last resize

vars == <<width, height, cells, status, last, prev, base, age, nticks, nseeds>>

----------------------------------------------------------------------------
(* Bounds of the exploration *)

\* largest dimension passed to set_width / set_height (besides GliderDim)
MaxDim == 3
\* a larger dimension, big enough for a glider to travel; GliderDim + 1 is
\* passed as well, so that grids that are not square are explored
GliderDim == 6
\* longest enumerated list passed to set_cells (the glider list is extra)
MaxPairs == 1
\* tick() calls explored between two resizes
MaxTicks == 4
\* set_cells() calls explored between two resizes
MaxSeeds == 2

----------------------------------------------------------------------------
(* enum Cell *)

Dead == 0
Alive == 1
Cell == {Dead, Alive}

(* let width = 64; let height = 64; in Universe::new *)
DefaultWidth == 64
DefaultHeight == 64

----------------------------------------------------------------------------
(* Private methods *)

\* get_index with the height as the stride
get_index_height_stride(row, col) == row * height + col

\* fn get_index(&self, row, col) -> usize        (row * self.width + col)
get_index(row, col) == row * width + col

\* self.cells[idx]: a Vec index, which panics when idx >= len
InBuffer(cs, idx) == idx >= 0 /\ idx < Len(cs)
At(cs, idx) == cs[idx + 1]

\* NeighborTerm without the `continue` for the (0, 0) offset
NeighborTermWithSelf(cs, row, column, delta_row, delta_col) ==
    At(cs, get_index((row + delta_row) % height, (column + delta_col) % width))

\* one iteration of the inner loop of live_neighbor_count: what it adds to count
NeighborTerm(cs, row, column, delta_row, delta_col) ==
    IF delta_row = 0 /\ delta_col = 0
    THEN 0
    ELSE At(cs, get_index((row + delta_row) % height, (column + delta_col) % width))

\* NeighborRow over [0, 1] only: the column to the left is forgotten
NeighborRowNoLeft(cs, row, column, delta_row) ==
    NeighborTerm(cs, row, column, delta_row, 0)
    + NeighborTerm(cs, row, column, delta_row, 1)

\* the inner loop of live_neighbor_count, over [self.width - 1, 0, 1]
NeighborRow(cs, row, column, delta_row) ==
    NeighborTerm(cs, row, column, delta_row, width - 1)
    + NeighborTerm(cs, row, column, delta_row, 0)
    + NeighborTerm(cs, row, column, delta_row, 1)

\* fn live_neighbor_count(&self, row, column) -> u8, reading buffer cs:
\* the outer loop, over [self.height - 1, 0, 1]
live_neighbor_count(cs, row, column) ==
    NeighborRow(cs, row, column, height - 1)
    + NeighborRow(cs, row, column, 0)
    + NeighborRow(cs, row, column, 1)

\* pub fn get_cells(&self) -> &[Cell]
get_cells == cells

\* live_neighbor_count(row, column) panics: with height = 0 or width = 0 the
\* remainder on line 40 or 41 divides by zero (self.height - 1 or
\* self.width - 1 underflows before that where overflow is checked); and
\* self.cells[idx] panics when idx is outside the buffer
NeighborCountPanics(cs, row, column) ==
    \/ height = 0
    \/ width = 0
    \/ \E delta_row \in {height - 1, 0, 1}, delta_col \in {width - 1, 0, 1} :
          /\ ~(delta_row = 0 /\ delta_col = 0)
          /\ ~InBuffer(cs, get_index((row + delta_row) % height,
                                     (column + delta_col) % width))

----------------------------------------------------------------------------
(* tick *)

\* NextCell with the overpopulation arm starting one neighbor late (x > 4)
NextCellLateOverpopulation(cell, live_neighbors) ==
    IF cell = Alive /\ live_neighbors < 2 THEN Dead
    ELSE IF cell = Alive /\ live_neighbors > 4 THEN Dead
    ELSE IF cell = Dead /\ live_neighbors = 3 THEN Alive
    ELSE cell

\* NextCell without the reproduction arm
NextCellNoReproduction(cell, live_neighbors) ==
    IF cell = Alive /\ live_neighbors < 2 THEN Dead
    ELSE IF cell = Alive /\ live_neighbors > 3 THEN Dead
    ELSE cell

\* NextCell with reproduction at 0 live neighbors instead of 3
NextCellBirthAtZero(cell, live_neighbors) ==
    IF cell = Alive /\ live_neighbors < 2 THEN Dead
    ELSE IF cell = Alive /\ (live_neighbors = 2 \/ live_neighbors = 3) THEN Alive
    ELSE IF cell = Alive /\ live_neighbors > 3 THEN Dead
    ELSE IF cell = Dead /\ live_neighbors = 0 THEN Alive
    ELSE cell

\* the match of tick: (cell, live_neighbors) -> next_cell, arms tried in order
NextCell(cell, live_neighbors) ==
    IF cell = Alive /\ live_neighbors < 2 THEN Dead
    ELSE IF cell = Alive /\ (live_neighbors = 2 \/ live_neighbors = 3) THEN Alive
    ELSE IF cell = Alive /\ live_neighbors > 3 THEN Dead
    ELSE IF cell = Dead /\ live_neighbors = 3 THEN Alive
    ELSE cell

\* TickCell updating in place: the cell and its neighbors are read from next
TickCellInPlace(next, row, col) ==
    LET idx == get_index(row, col)
        cell == At(next, idx)
        live_neighbors == live_neighbor_count(next, row, col)
    IN  [next EXCEPT ![idx + 1] =
            IF cell = Alive /\ live_neighbors < 2 THEN Dead
            ELSE IF cell = Alive /\ live_neighbors > 3 THEN Dead
            ELSE IF cell = Dead /\ live_neighbors = 3 THEN Alive
            ELSE cell]

\* body of the inner loop of tick for (row, col): the new value of next
TickCell(next, row, col) ==
    LET idx == get_index(row, col)
        cell == At(cells, idx)
        live_neighbors == live_neighbor_count(cells, row, col)
        next_cell == NextCell(cell, live_neighbors)
    IN  [next EXCEPT ![idx + 1] = next_cell]

RECURSIVE TickCols(_, _, _, _)
\* for col in lo..hi: the iterations in order, each starting from the buffer
\* the one before it left.  The range is halved, and the first half is
\* finished (the test on Len) before the second starts, only to keep the
\* evaluation of a 64-column row shallow.
TickCols(next, row, lo, hi) ==
    IF lo >= hi THEN next
    ELSE IF hi = lo + 1 THEN TickCell(next, row, lo)
    ELSE LET mid == (lo + hi) \div 2
             first == TickCols(next, row, lo, mid)
         IN  IF Len(first) >= 0 THEN TickCols(first, row, mid, hi) ELSE first

RECURSIVE TickRows(_, _, _)
\* for row in lo..hi, in order, the inner loop being for col in 0..self.width
TickRows(next, lo, hi) ==
    IF lo >= hi THEN next
    ELSE IF hi = lo + 1 THEN TickCols(next, lo, 0, width)
    ELSE LET mid == (lo + hi) \div 2
             first == TickRows(next, lo, mid)
         IN  IF Len(first) >= 0 THEN TickRows(first, mid, hi) ELSE first

\* tick that counts the neighbors of cell (0, 0) once before its loops
TickPanicsProbeFirst ==
    \/ NeighborCountPanics(cells, 0, 0)
    \/ \E row \in 0..(height - 1), col \in 0..(width - 1) :
          \/ ~InBuffer(cells, get_index(row, col))
          \/ NeighborCountPanics(cells, row, col)

\* tick panics: in some iteration of its loops self.cells[idx] is outside the
\* buffer, or live_neighbor_count panics
TickPanics ==
    \E row \in 0..(height - 1), col \in 0..(width - 1) :
        \/ ~InBuffer(cells, get_index(row, col))
        \/ NeighborCountPanics(cells, row, col)

\* pub fn tick(&mut self); a panic leaves self.cells unassigned
tick ==
    /\ status = "ok"
    /\ IF TickPanics
       THEN cells' = cells /\ status' = "panicked"
       ELSE cells' = TickRows(cells, 0, height) /\ status' = "ok"
    /\ prev' = cells
    /\ age' = age + 1
    /\ nticks' = nticks + 1
    /\ last' = "tick"
    /\ UNCHANGED <<width, height, base, nseeds>>

----------------------------------------------------------------------------
(* set_cells *)

RECURSIVE SetCellsFresh(_, _, _)
\* the loop of set_cells writing into a fresh all-Dead buffer
SetCellsFresh(cs, list, i) ==
    IF i > Len(list) THEN [cells |-> cs, ok |-> TRUE]
    ELSE LET idx == get_index(list[i][1], list[i][2])
             from == IF i = 1 THEN [k \in 1..Len(cs) |-> Dead] ELSE cs
         IN  IF InBuffer(cs, idx)
             THEN SetCellsFresh([from EXCEPT ![idx + 1] = Alive], list, i + 1)
             ELSE [cells |-> cs, ok |-> FALSE]

RECURSIVE SetCellsFrom(_, _, _)
\* the loop of set_cells from the i-th pair on; ok is FALSE when an index panicked
SetCellsFrom(cs, list, i) ==
    IF i > Len(list) THEN [cells |-> cs, ok |-> TRUE]
    ELSE LET row == list[i][1]
             col == list[i][2]
             idx == get_index(row, col)
         IN  IF InBuffer(cs, idx)
             THEN SetCellsFrom([cs EXCEPT ![idx + 1] = Alive], list, i + 1)
             ELSE [cells |-> cs, ok |-> FALSE]

\* pub fn set_cells(&mut self, cells: &[(u32, u32)])
set_cells(list) ==
    /\ status = "ok"
    /\ LET r == SetCellsFrom(cells, list, 1)
       IN  /\ cells' = r.cells
           /\ base' = r.cells
           /\ status' = IF r.ok THEN "ok" ELSE "panicked"
    /\ prev' = <<>>
    /\ age' = 0
    /\ nseeds' = nseeds + 1
    /\ last' = "set_cells"
    /\ UNCHANGED <<width, height, nticks>>

----------------------------------------------------------------------------
(* resize *)

\* (0..n).map(|_| Cell::Dead).collect()
AllDead(n) == [i \in 1..n |-> Dead]

\* set_width sizing the buffer before the field is assigned (the old width)
set_width_stale(w) ==
    /\ status = "ok"
    /\ width' = w
    /\ cells' = AllDead(width * height)
    /\ base' = AllDead(width * height)
    /\ prev' = <<>>
    /\ age' = 0
    /\ nticks' = 0
    /\ nseeds' = 0
    /\ last' = "set_width"
    /\ UNCHANGED <<height, status>>

\* pub fn set_width(&mut self, width: u32)
set_width(w) ==
    /\ status = "ok"
    /\ width' = w
    /\ cells' = AllDead(w * height)
    /\ base' = AllDead(w * height)
    /\ prev' = <<>>
    /\ age' = 0
    /\ nticks' = 0
    /\ nseeds' = 0
    /\ last' = "set_width"
    /\ UNCHANGED <<height, status>>

\* set_height that assigns the field and keeps the buffer
set_height_keep(h) ==
    /\ status = "ok"
    /\ height' = h
    /\ base' = cells
    /\ prev' = <<>>
    /\ age' = 0
    /\ nticks' = 0
    /\ nseeds' = 0
    /\ last' = "set_height"
    /\ UNCHANGED <<width, cells, status>>

\* pub fn set_height(&mut self, height: u32)
set_height(h) ==
    /\ status = "ok"
    /\ height' = h
    /\ cells' = AllDead(width * h)
    /\ base' = AllDead(width * h)
    /\ prev' = <<>>
    /\ age' = 0
    /\ nticks' = 0
    /\ nseeds' = 0
    /\ last' = "set_height"
    /\ UNCHANGED <<width, status>>

----------------------------------------------------------------------------
(* reads: methods taking &self; they return a value and assign no field *)

\* width_read taking the field: it returns self.width and leaves 0 behind
width_read_take ==
    /\ status = "ok"
    /\ last' = "width"
    /\ width' = 0
    /\ UNCHANGED <<height, cells, status, prev, base, age, nticks, nseeds>>

\* pub fn width(&self) -> u32, returning self.width
width_read ==
    /\ status = "ok"
    /\ last' = "width"
    /\ UNCHANGED <<width, height, cells, status, prev, base, age, nticks, nseeds>>

\* pub fn height(&self) -> u32, returning self.height
height_read ==
    /\ status = "ok"
    /\ last' = "height"
    /\ UNCHANGED <<width, height, cells, status, prev, base, age, nticks, nseeds>>

\* pub fn get_cells(&self) -> &[Cell], returning get_cells
get_cells_read ==
    /\ status = "ok"
    /\ last' = "get_cells"
    /\ UNCHANGED <<width, height, cells, status, prev, base, age, nticks, nseeds>>

\* pub fn cells_ptr(&self) -> *const Cell, returning the address of the buffer
cells_ptr_read ==
    /\ status = "ok"
    /\ last' = "cells_ptr"
    /\ UNCHANGED <<width, height, cells, status, prev, base, age, nticks, nseeds>>

----------------------------------------------------------------------------
(* new *)

\* the outcomes of the random source that are explored
RngSources == {1, 2}

\* one outcome of rng.gen() for cell i (0-based) under random source s
Gen(s, i) ==
    LET row == i \div DefaultWidth
        h == ((i + s) * 7919 + ((i * i) % 1009) * 31 + s * 104729) % 101
    IN  IF h % 8 < (row + s) % 9 THEN Alive ELSE Dead

\* NewCells over 1..(width * height), one cell short
NewCellsShort(s) == [i \in 1..(DefaultWidth * DefaultHeight - 1) |-> Gen(s, i)]

\* (0..(width * height)).map(|_| if rng.gen() { Alive } else { Dead }).collect()
NewCells(s) == [i \in 1..(DefaultWidth * DefaultHeight) |-> Gen(s, i - 1)]

----------------------------------------------------------------------------
(* Inputs *)

\* dimensions passed to set_width and set_height
Dims == (0..MaxDim) \cup {GliderDim, GliderDim + 1}

\* (row, col) pairs the enumerated lists are made of
Coords == {0, 1} \X {0, 1}

RECURSIVE ListsUpTo(_)
ListsUpTo(n) ==
    IF n = 0 THEN {<<>>}
    ELSE LET shorter == ListsUpTo(n - 1)
         IN  shorter \cup {Append(l, p) : l \in shorter, p \in Coords}

Glider == <<<<0, 1>>, <<1, 2>>, <<2, 0>>, <<2, 1>>, <<2, 2>>>>

\* lists passed to set_cells on a resized grid
CellLists == ListsUpTo(MaxPairs) \cup {Glider}

\* the empty list and the lists of one pair
PairLists == ListsUpTo(1)

\* lists passed to set_cells in the exploration that starts from new()
FewLists == {<<>>, <<<<0, 0>>, <<1, 1>>>>}

----------------------------------------------------------------------------
(* Specifications *)

\* the state Universe::new() returns
Init ==
    /\ width = DefaultWidth
    /\ height = DefaultHeight
    /\ \E s \in RngSources : cells = NewCells(s)
    /\ base = cells
    /\ prev = <<>>
    /\ status = "ok"
    /\ last = "new"
    /\ age = 0
    /\ nticks = 0
    /\ nseeds = 0

\* the state after new(), set_width(w), set_height(h)
InitGrid ==
    /\ width \in Dims
    /\ height \in Dims
    /\ cells = AllDead(width * height)
    /\ base = cells
    /\ prev = <<>>
    /\ status = "ok"
    /\ last = "set_height"
    /\ age = 0
    /\ nticks = 0
    /\ nseeds = 0

\* one call, with set_cells given a list of lists
Step(lists) ==
    \/ nticks < MaxTicks /\ tick
    \/ \E list \in lists : nseeds < MaxSeeds /\ set_cells(list)
    \/ \E w \in Dims : set_width(w)
    \/ \E h \in Dims : set_height(h)

\* one read
Read ==
    \/ width_read
    \/ height_read
    \/ get_cells_read
    \/ cells_ptr_read

Next == Step(FewLists)

NextGrid == Step(CellLists)

\* every run of calls on a freshly constructed Universe
Spec == Init /\ [][Next]_vars

\* every run of calls on a Universe that has been resized
SpecGrid == InitGrid /\ [][NextGrid]_vars

\* the same runs with reads between the calls and with set_cells given the
\* empty list or one pair.  A read changes no field, so the Universes
\* reached are among those of SpecGrid.
NextReads == Step(PairLists) \/ Read

SpecReads == InitGrid /\ [][NextReads]_vars

----------------------------------------------------------------------------
(* Vocabulary of the properties *)

Rows == 0..(height - 1)
Cols == 0..(width - 1)

\* the (row, col) pairs whose cell is Alive in buffer cs
AliveSet(cs) == {p \in Rows \X Cols : At(cs, get_index(p[1], p[2])) = Alive}

AllCellsDead(cs) == \A i \in 1..Len(cs) : cs[i] = Dead

----------------------------------------------------------------------------
(* C1: in every state reached from new() by tick(), set_cells(), set_width() *)
(* and set_height(), the buffer get_cells() returns has width() * height()   *)
(* cells.                                                                    *)
C1_BufferLength == Len(get_cells) = width * height

\* a 2 x 3 grid that has been resized twice, seeded and ticked
C1_Witness ==
    /\ width = 2 /\ height = 3 /\ status = "ok"
    /\ last = "tick" /\ nseeds = 1
    /\ Len(get_cells) = 6

----------------------------------------------------------------------------
(* C10: right after new() the Universe is 64 wide and 64 high, its buffer   *)
(* has 64 * 64 = 4096 cells and every cell is Dead or Alive, whatever the   *)
(* random source produced.                                                  *)
C10_NewUniverse ==
    last = "new" =>
        /\ width = 64 /\ height = 64
        /\ Len(get_cells) = 4096
        /\ \A i \in 1..Len(get_cells) : get_cells[i] \in {Dead, Alive}

\* a freshly constructed Universe in which the random source gave both values
C10_Witness ==
    /\ last = "new"
    /\ \E i \in 1..Len(get_cells) : get_cells[i] = Alive
    /\ \E i \in 1..Len(get_cells) : get_cells[i] = Dead

----------------------------------------------------------------------------
(* C2: the rule table.  For each of the 18 pairs (state, live neighbor      *)
(* count 0..8) the state tick() gives a cell is: Alive with fewer than 2    *)
(* -> Dead; Alive with 2 or 3 -> Alive; Alive with more than 3 -> Dead;     *)
(* Dead with exactly 3 -> Alive; Dead otherwise -> Dead.                    *)

\* the table, as the claim words it
RuleTable(state, n) ==
    CASE state = Alive /\ n < 2 -> Dead
      [] state = Alive /\ n \in {2, 3} -> Alive
      [] state = Alive /\ n > 3 -> Dead
      [] state = Dead /\ n = 3 -> Alive
      [] state = Dead /\ n # 3 -> Dead

\* the (state, live neighbor count) pairs that occur in buffer cs
RuleCases(cs) ==
    {<<At(cs, get_index(p[1], p[2])), live_neighbor_count(cs, p[1], p[2])>> :
        p \in Rows \X Cols}

C2_RuleTable ==
    (last = "tick" /\ status = "ok") =>
        \A p \in Rows \X Cols :
            At(cells, get_index(p[1], p[2])) =
                RuleTable(At(prev, get_index(p[1], p[2])),
                          live_neighbor_count(prev, p[1], p[2]))

\* a tick() of a grid in which all 18 pairs occurred
C2_Witness ==
    /\ last = "tick"
    /\ RuleCases(prev) = {Dead, Alive} \X (0..8)

----------------------------------------------------------------------------
(* C3: tick() updates all cells in lockstep: the buffer after tick() is the *)
(* next generation of the complete buffer before it, every cell computed    *)
(* from the states and neighbor counts of the old generation only.          *)

\* the next generation of buffer cs, every cell from cs alone
NextGeneration(cs) ==
    [i \in 1..Len(cs) |->
        NextCell(cs[i], live_neighbor_count(cs, (i - 1) \div width, (i - 1) % width))]

C3_Lockstep == (last = "tick" /\ status = "ok") => cells = NextGeneration(prev)

\* a tick() after which a cell was born next to a cell that died
C3_Witness ==
    /\ last = "tick" /\ width >= 3 /\ height >= 3
    /\ \E p \in Rows \X Cols, q \in Rows \X Cols :
          /\ At(prev, get_index(p[1], p[2])) = Dead
          /\ At(cells, get_index(p[1], p[2])) = Alive
          /\ At(prev, get_index(q[1], q[2])) = Alive
          /\ At(cells, get_index(q[1], q[2])) = Dead
          /\ (q[1] - p[1]) \in {-1, 0, 1} /\ (q[2] - p[2]) \in {-1, 0, 1}

----------------------------------------------------------------------------
(* C4: on a grid at least 2 wide and 2 high, live_neighbor_count(row, col)  *)
(* is the sum, over the 8 offsets (dr, dc) in {-1,0,1} x {-1,0,1} except    *)
(* (0,0), of the value (Alive 1, Dead 0) of the cell at ((row + dr) mod     *)
(* height, (col + dc) mod width); it lies in 0..8 and does not depend on    *)
(* the cell's own value.                                                    *)

\* the value of the cell at offset (dr, dc) from (row, col) on the torus
Around(cs, row, col, dr, dc) ==
    cs[((row + dr) % height) * width + ((col + dc) % width) + 1]

OffsetSum(cs, row, col) ==
    Around(cs, row, col, -1, -1) + Around(cs, row, col, -1, 0)
    + Around(cs, row, col, -1, 1) + Around(cs, row, col, 0, -1)
    + Around(cs, row, col, 0, 1) + Around(cs, row, col, 1, -1)
    + Around(cs, row, col, 1, 0) + Around(cs, row, col, 1, 1)

\* buffer cs with the cell at (row, col) flipped
Flipped(cs, row, col) ==
    [cs EXCEPT ![get_index(row, col) + 1] = IF @ = Alive THEN Dead ELSE Alive]

C4_NeighborCount ==
    (width >= 2 /\ height >= 2) =>
        \A p \in Rows \X Cols :
            LET n == live_neighbor_count(cells, p[1], p[2])
            IN  /\ n = OffsetSum(cells, p[1], p[2])
                /\ n \in 0..8
                /\ live_neighbor_count(Flipped(cells, p[1], p[2]), p[1], p[2]) = n

\* a 2 x 2 grid, where every offset wraps, with an Alive cell whose count is not 0
C4_Witness ==
    /\ width = 2 /\ height = 2 /\ status = "ok"
    /\ \E p \in Rows \X Cols :
          /\ At(cells, get_index(p[1], p[2])) = Alive
          /\ live_neighbor_count(cells, p[1], p[2]) > 0

----------------------------------------------------------------------------
(* C5 as claimed: on a 3 x 3 grid in which only cell (0,0) is Alive,        *)
(* live_neighbor_count(2,2) is 1 and live_neighbor_count(1,1) is 0.         *)

OnlyOriginAlive == width = 3 /\ height = 3 /\ AliveSet(cells) = {<<0, 0>>}

C5_AsClaimed ==
    OnlyOriginAlive =>
        /\ live_neighbor_count(cells, 2, 2) = 1
        /\ live_neighbor_count(cells, 1, 1) = 0

(* C5 amended: on a 3 x 3 grid in which only cell (0,0) is Alive,           *)
(* live_neighbor_count(2,2) is 1 and live_neighbor_count(1,1) is 1 as well: *)
(* (0,0) is the neighbor of (1,1) at offset (-1,-1).                        *)
C5_Amended ==
    OnlyOriginAlive =>
        /\ live_neighbor_count(cells, 2, 2) = 1
        /\ live_neighbor_count(cells, 1, 1) = 1

\* the 3 x 3 grid right after set_cells([(0,0)])
C5_Witness == OnlyOriginAlive /\ last = "set_cells" /\ status = "ok"

----------------------------------------------------------------------------
(* C6: after set_width(w) the width is w, the height is what it was and the *)
(* buffer is w * height Dead cells; after set_height(h) the height is h,    *)
(* the width is what it was and the buffer is width * h Dead cells;         *)
(* whatever was Alive before, and also when the value does not change.      *)
C6_ResizeClears ==
    [][ /\ \A w \in Dims : set_width(w) =>
              /\ width' = w /\ height' = height
              /\ Len(cells') = w * height /\ AllCellsDead(cells')
        /\ \A h \in Dims : set_height(h) =>
              /\ height' = h /\ width' = width
              /\ Len(cells') = width * h /\ AllCellsDead(cells')
      ]_vars

\* a 3 x 2 grid right after set_width(3): six cells, all Dead
C6_Witness ==
    /\ last = "set_width" /\ width = 3 /\ height = 2
    /\ Len(cells) = 6 /\ AllCellsDead(cells)

----------------------------------------------------------------------------
(* C7: set_cells with a list of in-bounds pairs makes the listed cells      *)
(* Alive and leaves every other cell, the width and the height as they      *)
(* were; it sets no cell to Dead.                                           *)

InBounds(pair) == pair[1] < height /\ pair[2] < width
Listed(list) == {list[i] : i \in 1..Len(list)}

C7_SetCellsFrame ==
    [][ \A list \in CellLists :
          (set_cells(list) /\ \A pair \in Listed(list) : InBounds(pair)) =>
              /\ status' = "ok"
              /\ width' = width /\ height' = height
              /\ Len(cells') = Len(cells)
              /\ \A p \in Rows \X Cols :
                    At(cells', get_index(p[1], p[2])) =
                        IF p \in Listed(list) THEN Alive
                        ELSE At(cells, get_index(p[1], p[2]))
      ]_vars

\* a 3 x 3 grid after a second set_cells: the glider cells and (0,0) are Alive,
\* so the second call kept what the first had set
C7_Witness ==
    /\ width = 3 /\ height = 3 /\ status = "ok"
    /\ last = "set_cells" /\ nseeds = 2 /\ nticks = 0
    /\ AliveSet(cells) = Listed(Glider) \cup {<<0, 0>>}

----------------------------------------------------------------------------
(* C8: on an all-Dead grid at least 6 wide and 6 high, after set_cells has  *)
(* seeded the glider (0,1) (1,2) (2,0) (2,1) (2,2) and tick() has been      *)
(* called exactly 4 times, the Alive cells are the seeded ones moved by     *)
(* (1,1) modulo the grid size.                                              *)

GliderSet == Listed(Glider)

GliderSeeded ==
    /\ status = "ok" /\ width >= 6 /\ height >= 6
    /\ nseeds = 1 /\ AliveSet(base) = GliderSet

C8_Glider ==
    (GliderSeeded /\ age = 4) =>
        AliveSet(cells) = {<<(p[1] + 1) % height, (p[2] + 1) % width>> : p \in GliderSet}

\* the fourth tick() after the glider was seeded
C8_Witness == GliderSeeded /\ age = 4 /\ last = "tick" /\ Cardinality(AliveSet(cells)) = 5

----------------------------------------------------------------------------
(* C9 as claimed: set_cells given a pair with row >= height or col >= width *)
(* fails with an error and does not set another, in-bounds cell to Alive.   *)
C9_OutOfBoundsFails ==
    [][ \A list \in CellLists :
          (set_cells(list) /\ \E pair \in Listed(list) : ~InBounds(pair)) =>
              /\ status' = "panicked"
              /\ \A p \in Rows \X Cols :
                    (At(cells', get_index(p[1], p[2])) = Alive /\ p \notin Listed(list))
                        => At(cells, get_index(p[1], p[2])) = Alive
      ]_vars

----------------------------------------------------------------------------
(* C11 as claimed: when height = 1 or width = 1, live_neighbor_count(row,   *)
(* col) is still the sum over all 8 offsets (dr, dc) in {-1,0,1} x {-1,0,1} *)
(* except (0,0), taken modulo the grid, so the cell itself is counted once  *)
(* for every offset that wraps onto it; on a grid 1 high and 3 wide a lone  *)
(* Alive cell has live neighbor count 2.                                    *)
C11_DegenerateCount ==
    ((height = 1 \/ width = 1) /\ height >= 1 /\ width >= 1) =>
        \A p \in Rows \X Cols :
            live_neighbor_count(cells, p[1], p[2]) = OffsetSum(cells, p[1], p[2])

----------------------------------------------------------------------------
(* C12: when width = 0 or height = 0, after set_width(0) or set_height(0),  *)
(* the buffer is empty, and tick(), set_cells with the empty list,          *)
(* get_cells(), width() and height() each complete without a panic and      *)
(* leave the width, the height and the buffer as they were.                 *)
C12_DegenerateGrid ==
    [][ (status = "ok" /\ (width = 0 \/ height = 0)) =>
          /\ Len(get_cells) = 0
          /\ (tick \/ set_cells(<<>>) \/ get_cells_read \/ width_read \/ height_read)
                => /\ status' = "ok"
                   /\ UNCHANGED <<width, height, cells>>
      ]_vars

\* a grid 0 wide and 3 high, so that the outer loop of tick() runs, after
\* set_cells([]) and then tick()
C12_Witness ==
    /\ width = 0 /\ height = 3 /\ status = "ok"
    /\ last = "tick" /\ nseeds = 1 /\ nticks = 1
    /\ get_cells = <<>>

----------------------------------------------------------------------------
(* C13: the buffer is row-major.  On an all-Dead grid, set_cells([(row,     *)
(* col)]) with row < height and col < width makes Alive the buffer position *)
(* row * width + col and no other; that position is in 0 .. width * height  *)
(* - 1; and two different in-bounds coordinates never have the same buffer  *)
(* position (the in-bounds coordinates have as many positions as there are  *)
(* coordinates).                                                            *)
C13_RowMajor ==
    [][ /\ \A list \in PairLists :
              (Len(list) = 1 /\ InBounds(list[1]) /\ AllCellsDead(cells)
                  /\ set_cells(list)) =>
                  LET position == list[1][1] * width + list[1][2]
                  IN  /\ position \in 0..(width * height - 1)
                      /\ \A i \in 0..(Len(cells') - 1) :
                            (cells'[i + 1] = Alive) <=> (i = position)
        /\ Cardinality({get_index(p[1], p[2]) : p \in Rows \X Cols}) =
              Cardinality(Rows \X Cols)
      ]_vars

\* a grid 3 wide and 2 high after set_cells([(1, 1)]): position 1 * 3 + 1 = 4
C13_Witness ==
    /\ width = 3 /\ height = 2 /\ status = "ok"
    /\ last = "set_cells" /\ nseeds = 1 /\ nticks = 0
    /\ get_cells = <<Dead, Dead, Dead, Dead, Alive, Dead>>

----------------------------------------------------------------------------
(* C14: tick() changes neither the width nor the height; width(), height()  *)
(* and get_cells() change no field of the Universe; and the width changes   *)
(* in a set_width call only, the height in a set_height call only.          *)
C14_Frame ==
    [][ /\ (last' = "tick" /\ tick) => UNCHANGED <<width, height>>
        /\ (width_read \/ height_read \/ get_cells_read) =>
              UNCHANGED <<width, height, cells, status>>
        /\ width' # width => \E w \in Dims : set_width(w)
        /\ height' # height => \E h \in Dims : set_height(h)
      ]_vars

\* a grid 2 wide and 3 high that was seeded, ticked and then read
C14_Witness ==
    /\ width = 2 /\ height = 3 /\ status = "ok"
    /\ last = "get_cells" /\ nseeds = 1 /\ nticks = 1
    /\ Len(get_cells) = 6 /\ ~AllCellsDead(prev)

----------------------------------------------------------------------------
(* C15: the all-Dead grid is a fixed point of tick().  While the buffer     *)
(* that the latest resize or set_cells left is all Dead (a resize cleared   *)
(* it and no set_cells with a non-empty list has set a cell since), every   *)
(* cell is Dead after any number of tick() calls.                           *)
C15_DeadFixedPoint ==
    (status = "ok" /\ AllCellsDead(base)) => AllCellsDead(cells)

\* a 3 x 3 grid that was cleared by a resize, given set_cells([]) and then
\* ticked MaxTicks times
C15_Witness ==
    /\ width = 3 /\ height = 3 /\ status = "ok"
    /\ last = "tick" /\ age = MaxTicks /\ nseeds = 1
    /\ Len(base) = 9 /\ AllCellsDead(base)
    /\ AllCellsDead(cells)

====
